---- MODULE Spec2Model ----
(***************************************************************************)
(* Model of generate_parallel_html.py: the normalizer that turns decoded   *)
(* JSON into the canonical list of sections, and the main run that renders *)
(* it into a template.                                                     *)
(*                                                                         *)
(* Decoded JSON values are tagged records; each tag has its own payload    *)
(* field, so values of different Python types never share a field:         *)
(*   None  [t |-> "null"]            str   [t |-> "str",  s |-> "a"]       *)
(*   int   [t |-> "num", n |-> 5]    bool  [t |-> "bool", b |-> TRUE]      *)
(*   list  [t |-> "list", l |-> <<..>>]                                    *)
(*   dict  [t |-> "obj",  o |-> function from string keys to values]       *)
(* A dict is compared as Python compares dicts (key order insignificant);  *)
(* the one dict whose insertion order the program observes, `sections` of  *)
(* normalize_sentences, is modelled as a sequence of (key, value) pairs.   *)
(***************************************************************************)
EXTENDS Integers, Sequences, FiniteSets, TLC

VARIABLES raw, pc, data, normalized, template, fs, err, result, second

vars == <<raw, pc, data, normalized, template, fs, err, result, second>>

-----------------------------------------------------------------------------
(* Bounds of the input universe *)

MaxLen == 3          \* longest flat list of entries
MaxSentences == 2    \* longest `sentences` list of a pre-sectioned section
MaxDepth == 2        \* deepest nesting of {"sections": ...} wrappers

-----------------------------------------------------------------------------
(* Program constants *)

PLACEHOLDER == "__DATA__"
DefaultSection == "Text"
DefaultLang == "en"

-----------------------------------------------------------------------------
(* Python values *)

Null == [t |-> "null"]
Str(x) == [t |-> "str", s |-> x]
Num(x) == [t |-> "num", n |-> x]
Bool(x) == [t |-> "bool", b |-> x]
List(x) == [t |-> "list", l |-> x]
Obj(x) == [t |-> "obj", o |-> x]

EmptyDict == [k \in {} |-> Null]

IsDict(v) == v.t = "obj"
IsList(v) == v.t = "list"
IsStr(v) == v.t = "str"
IsNone(v) == v.t = "null"

\* `key in d` for a dict d
HasKey(d, key) == key \in DOMAIN d.o

\* d.get(key, default)
Get(d, key, default) == IF key \in DOMAIN d.o THEN d.o[key] ELSE default

\* bool(v): Python truthiness
Truthy(v) ==
    CASE v.t = "null" -> FALSE
      [] v.t = "bool" -> v.b
      [] v.t = "num" -> v.n # 0
      [] v.t = "str" -> v.s # ""
      [] v.t = "list" -> Len(v.l) > 0
      [] v.t = "obj" -> DOMAIN v.o # {}

\* hash(v) is defined: lists and dicts cannot be dict keys
Hashable(v) == v.t \notin {"list", "obj"}

\* d.update(e): every pair of e is written, overwriting
dict_update(d, e) ==
    [k \in DOMAIN d \cup DOMAIN e |-> IF k \in DOMAIN e THEN e[k] ELSE d[k]]

\* Variant of dict_setdefault that writes the value even when the key is set
dict_setdefault_overwriting(d, key, value) ==
    [k \in DOMAIN d \cup {key} |-> IF k = key THEN value ELSE d[k]]

\* d.setdefault(key, value) on a string-keyed dict: written only when absent
dict_setdefault(d, key, value) ==
    [k \in DOMAIN d \cup {key} |-> IF k \in DOMAIN d THEN d[k] ELSE value]

\* Position of key in the insertion-ordered dict od (0 when absent).  Keys
\* are compared as values of one Python type; the inputs never mix bool and
\* int keys, which Python would treat as equal (True == 1).
od_find(od, key) ==
    IF \E i \in 1..Len(od) : od[i].key = key
    THEN CHOOSE i \in 1..Len(od) : od[i].key = key
    ELSE 0

\* Variant of od_append that restarts the list of a key already present
od_append_replacing(od, key, x) ==
    IF od_find(od, key) = 0
    THEN Append(od, [key |-> key, val |-> <<x>>])
    ELSE [od EXCEPT ![od_find(od, key)].val = <<x>>]

\* od.setdefault(key, []).append(x) on the insertion-ordered dict od:
\* a new key goes to the end, an existing key keeps its position
od_append(od, key, x) ==
    IF od_find(od, key) = 0
    THEN Append(od, [key |-> key, val |-> <<x>>])
    ELSE [od EXCEPT ![od_find(od, key)].val = Append(@, x)]

-----------------------------------------------------------------------------
(* Outcomes: a returned value or a raised exception.  A message is the    *)
(* sequence of the parts of its f-string: literal text, an interpolated   *)
(* entry index, an interpolated repr of a value.                          *)

Lit(x) == [p |-> "lit", text |-> x]
Idx(i) == [p |-> "index", index |-> i]
Repr(v) == [p |-> "repr", value |-> v]

Return(v) == [ok |-> TRUE, val |-> v]
Raise(type, parts) == [ok |-> FALSE, err |-> [type |-> type, msg |-> parts]]

-----------------------------------------------------------------------------
(* normalize_sentences *)

\* The translations dict built for one accepted entry (lines 37-52)
merge_translations(item, default_lang) ==
    LET base == IF HasKey(item, "translations") /\ IsDict(item.o["translations"])
                THEN dict_update(EmptyDict, item.o["translations"].o)
                ELSE EmptyDict
    IN  IF ~HasKey(item, "translation") THEN base
        ELSE LET raw_translation == item.o["translation"]
             IN  IF IsStr(raw_translation)
                 THEN dict_setdefault(base, default_lang, raw_translation)
                 ELSE IF IsDict(raw_translation)
                 THEN dict_update(base, raw_translation.o)
                 ELSE base

\* Variant of section_title_of that never reads the entry's `section`
section_title_of_default(item, default_section) == Str(default_section)

\* item.get("section") or default_section
section_title_of(item, default_section) ==
    LET s == Get(item, "section", Null)
    IN  IF Truthy(s) THEN s ELSE Str(default_section)

\* The sentence dict appended for one accepted entry (lines 56-60)
flat_sentence(item, default_lang) ==
    Obj([original |-> item.o["original"],
         translations |-> Obj(merge_translations(item, default_lang)),
         root |-> Bool(Truthy(Get(item, "root", Bool(FALSE))))])

\* The list comprehension of lines 63-66 over the insertion-ordered dict
sections_list(od) ==
    List([i \in 1..Len(od) |->
            Obj([sectionTitle |-> od[i].key, sentences |-> List(od[i].val)])])

\* raise ValueError(f"Entry {index} is not an object: {item!r}")
entry_not_object_error(index, item) ==
    Raise("ValueError",
          <<Lit("Entry "), Idx(index), Lit(" is not an object: "), Repr(item)>>)

\* Variant of missing_original_error that leaves the entry out of the message
missing_original_error_without_value(index, item) ==
    Raise("ValueError", <<Lit("Entry "), Idx(index), Lit(" is missing 'original'")>>)

\* raise ValueError(f"Entry {index} is missing 'original': {item!r}")
missing_original_error(index, item) ==
    Raise("ValueError",
          <<Lit("Entry "), Idx(index), Lit(" is missing 'original': "), Repr(item)>>)

\* raise ValueError(f"'translations' on entry {index} must be an object if provided.")
bad_translations_error(index) ==
    Raise("ValueError",
          <<Lit("'translations' on entry "), Idx(index),
            Lit(" must be an object if provided.")>>)

\* raise ValueError(f"'translation' on entry {index} must be a string or object.")
bad_translation_error(index) ==
    Raise("ValueError",
          <<Lit("'translation' on entry "), Idx(index),
            Lit(" must be a string or object.")>>)

\* The for loop of lines 29-61 from entry `index` on, with `sections` so far
RECURSIVE sentences_loop(_, _, _, _, _)
sentences_loop(items, index, sections, default_section, default_lang) ==
    IF index > Len(items) THEN Return(sections_list(sections))
    ELSE LET item == items[index] IN
      IF ~IsDict(item)
      THEN entry_not_object_error(index, item)
      ELSE IF ~HasKey(item, "original")
      THEN missing_original_error(index, item)
      ELSE IF /\ HasKey(item, "translations")
              /\ ~IsDict(item.o["translations"])
              /\ ~IsNone(item.o["translations"])
      THEN bad_translations_error(index)
      ELSE IF /\ HasKey(item, "translation")
              /\ ~IsStr(item.o["translation"])
              /\ ~IsDict(item.o["translation"])
              /\ ~IsNone(item.o["translation"])
      THEN bad_translation_error(index)
      ELSE LET section_title == section_title_of(item, default_section) IN
        IF ~Hashable(section_title)
        THEN Raise("TypeError", <<Lit("unhashable type")>>)
        ELSE sentences_loop(items, index + 1,
                            od_append(sections, section_title,
                                      flat_sentence(item, default_lang)),
                            default_section, default_lang)

normalize_sentences(items, default_section, default_lang) ==
    sentences_loop(items, 1, <<>>, default_section, default_lang)

-----------------------------------------------------------------------------
(* normalize_data *)

\* The elements a for loop draws from v, or the TypeError of a value that
\* is not iterable.  A dict yields its keys and a str its characters; the
\* model iterates dicts of at most one key and strings of at most one
\* character, for which the order of the elements is immaterial.
Iterate(v) ==
    CASE v.t = "list" -> Return(v.l)
      [] v.t = "obj" -> Return(IF DOMAIN v.o = {} THEN <<>>
                               ELSE <<Str(CHOOSE k \in DOMAIN v.o : TRUE)>>)
      [] v.t = "str" -> Return(IF v.s = "" THEN <<>> ELSE <<Str(v.s)>>)
      [] OTHER -> Raise("TypeError", <<Lit("object is not iterable")>>)

\* The test of line 73 on one element
is_section_shaped(item) ==
    IsDict(item) /\ HasKey(item, "sectionTitle") /\ HasKey(item, "sentences")

\* Variant of sectioned_sentence that reads `original` from the wrong key
sectioned_sentence_wrong_key(sentence) ==
    Obj([original |-> Get(sentence, "text", Str("")),
         translations |-> Get(sentence, "translations", Obj(EmptyDict)),
         root |-> Bool(Truthy(Get(sentence, "root", Bool(FALSE))))])

\* The sentence dict built at lines 82-86
sectioned_sentence(sentence) ==
    Obj([original |-> Get(sentence, "original", Str("")),
         translations |-> Get(sentence, "translations", Obj(EmptyDict)),
         root |-> Bool(Truthy(Get(sentence, "root", Bool(FALSE))))])

\* raise ValueError(f"Sentence must be an object: {sentence!r}")
sentence_not_object_error(sentence) ==
    Raise("ValueError", <<Lit("Sentence must be an object: "), Repr(sentence)>>)

\* The inner for loop of lines 78-87 from element j on
RECURSIVE section_sentences_loop(_, _, _)
section_sentences_loop(elems, j, sentences) ==
    IF j > Len(elems) THEN Return(sentences)
    ELSE IF ~IsDict(elems[j])
    THEN sentence_not_object_error(elems[j])
    ELSE section_sentences_loop(elems, j + 1,
                                Append(sentences, sectioned_sentence(elems[j])))

\* The outer for loop of lines 75-88 from section i on
RECURSIVE sections_loop(_, _, _, _)
sections_loop(raw_data, i, normalized_sections, default_section) ==
    IF i > Len(raw_data) THEN Return(List(normalized_sections))
    ELSE LET section == raw_data[i]
             section_title == Get(section, "sectionTitle", Str(default_section))
             it == Iterate(Get(section, "sentences", List(<<>>)))
         IN  IF ~it.ok THEN it
             ELSE LET r == section_sentences_loop(it.val, 1, <<>>) IN
               IF ~r.ok THEN r
               ELSE sections_loop(raw_data, i + 1,
                       Append(normalized_sections,
                              Obj([sectionTitle |-> section_title,
                                   sentences |-> List(r.val)])),
                       default_section)

\* Variant of is_sections_wrapper that rejects a wrapper with other keys
is_sections_wrapper_alone(raw_data) ==
    IsDict(raw_data) /\ DOMAIN raw_data.o = {"sections"}

\* The test of line 94
is_sections_wrapper(raw_data) == IsDict(raw_data) /\ HasKey(raw_data, "sections")

\* raise ValueError("Unsupported JSON shape. ...")
unsupported_shape_error ==
    Raise("ValueError",
          <<Lit("Unsupported JSON shape. Expected a list of sentences or sections.")>>)

RECURSIVE normalize_data(_, _, _)
normalize_data(raw_data, default_section, default_lang) ==
    IF IsList(raw_data)
    THEN IF \A i \in 1..Len(raw_data.l) : is_section_shaped(raw_data.l[i])
         THEN sections_loop(raw_data.l, 1, <<>>, default_section)
         ELSE normalize_sentences(raw_data.l, default_section, default_lang)
    ELSE IF is_sections_wrapper(raw_data)
    THEN normalize_data(raw_data.o["sections"], default_section, default_lang)
    ELSE unsupported_shape_error

-----------------------------------------------------------------------------
(* render_html: the text of a file is a sequence of pieces, each either  *)
(* literal text (PLACEHOLDER is one such text) or the JSON encoding of a  *)
(* document.                                                              *)

Text(pieces) == [t |-> "text", pieces |-> pieces]
Piece(x) == [p |-> "lit", text |-> x]

\* json.dumps(data, ensure_ascii=False, indent=2)
dumps(doc) == [p |-> "json", doc |-> doc]

\* Variant of has_placeholder that finds the placeholder in any template
has_placeholder_unchecked(tpl) == TRUE

\* PLACEHOLDER in template
has_placeholder(tpl) ==
    \E i \in 1..Len(tpl.pieces) : tpl.pieces[i] = Piece(PLACEHOLDER)

\* template.replace(PLACEHOLDER, text): every occurrence is replaced
RECURSIVE replace_from(_, _, _)
replace_from(pieces, i, text) ==
    IF i > Len(pieces) THEN <<>>
    ELSE <<IF pieces[i] = Piece(PLACEHOLDER) THEN text ELSE pieces[i]>>
         \o replace_from(pieces, i + 1, text)

replace_all(tpl, text) == Text(replace_from(tpl.pieces, 1, text))

-----------------------------------------------------------------------------
(* The inputs *)

SeqsUpTo(S, n) == UNION {[1..k -> S] : k \in 0..n}

\* A file that cannot be read
Missing == [t |-> "missing"]
\* Nothing assigned yet
None == [t |-> "unset"]

TranslationsValues ==
    { Null, Obj(EmptyDict), Obj([en |-> Str("old")]), Obj([fr |-> Str("bonjour")]),
      Obj([en |-> Str("old"), fr |-> Str("bonjour")]), Str("bad"), List(<<>>) }

TranslationValues ==
    { Null, Str("hi"), Obj([en |-> Str("new")]), Obj([en |-> Str("new"), de |-> Str("neu")]),
      Obj(EmptyDict), Num(7), Bool(TRUE) }

\* Entries that vary the two translation fields, present or absent
TranslationEntries ==
    {Obj([original |-> Str("a")])}
    \cup {Obj([original |-> Str("a"), translations |-> ts]) : ts \in TranslationsValues}
    \cup {Obj([original |-> Str("a"), translation |-> tr]) : tr \in TranslationValues}
    \cup {Obj([original |-> Str("a"), translations |-> ts, translation |-> tr]) :
             ts \in TranslationsValues, tr \in TranslationValues}

\* Entries that vary validity, the section and the root flag
CoreEntries ==
    { Num(5),
      Obj([translation |-> Str("hi")]),
      Obj([original |-> Str("a"), translations |-> Str("bad")]),
      Obj([original |-> Str("a"), translation |-> Num(7)]),
      Obj([original |-> Str("a")]),
      Obj([original |-> Str("b"), section |-> Str("A")]),
      Obj([original |-> Str("c"), section |-> Str("B"), root |-> Bool(TRUE)]),
      Obj([original |-> Str("f"), section |-> Str("")]),
      Obj([original |-> Str("g"), section |-> Str("Text")]),
      Obj([original |-> Str("h"), section |-> Null, translations |-> Obj([en |-> Str("old")]),
           translation |-> Str("hi")]),
      Obj([original |-> Str("d"), section |-> Str("A"), root |-> Num(1),
           translations |-> Obj([fr |-> Str("bonjour")]), translation |-> Str("hi")]),
      Obj([original |-> Str("e"), section |-> List(<<Str("A")>>)]),
      Obj([original |-> Str("s"), sectionTitle |-> Str("A"), sentences |-> List(<<>>)]) }

FlatLists ==
    {List(q) : q \in SeqsUpTo(CoreEntries, MaxLen)}
    \cup {List(<<e>>) : e \in TranslationEntries}

SentenceValues ==
    { Obj(EmptyDict),
      Obj([original |-> Str("a"), translations |-> Null]),
      Obj([original |-> Str("b"), translations |-> Obj([en |-> Str("x")]), root |-> Num(1)]),
      Obj([original |-> Str("c"), translations |-> Str("bad"), root |-> Bool(FALSE)]),
      Obj([original |-> Num(3), root |-> Bool(TRUE)]),
      Num(5) }

SentencesValues ==
    {List(q) : q \in SeqsUpTo(SentenceValues, MaxSentences)}
    \cup { Null, Num(5), Str(""), Str("x"), Obj(EmptyDict), Obj([k |-> Num(1)]) }

TitleValues == { Str("A"), Str("Text"), Str(""), Null }

SectionValues ==
    {Obj([sectionTitle |-> ti, sentences |-> ss]) : ti \in TitleValues, ss \in SentencesValues}

\* A few sections to pair up in lists of two
PairSections ==
    { Obj([sectionTitle |-> Str("A"), sentences |-> List(<<Obj([original |-> Str("a")])>>)]),
      Obj([sectionTitle |-> Str("A"), sentences |-> List(<<>>), note |-> Str("n")]),
      Obj([sectionTitle |-> Str(""), sentences |-> List(<<Obj([translations |-> Null])>>)]),
      Obj([sectionTitle |-> Null, sentences |-> List(<<Num(5)>>)]),
      Obj([sectionTitle |-> Str("B"), sentences |-> Null]) }

SectionLists ==
    {List(<<sec>>) : sec \in SectionValues}
    \cup {List(<<s1, s2>>) : s1 \in PairSections, s2 \in PairSections}

\* Values that are neither a list nor a mapping with `sections`
OtherShapes ==
    { Null, Num(5), Str("a"), Bool(TRUE), Obj(EmptyDict), Obj([title |-> Str("t")]) }

\* The values put inside {"sections": ...} wrappers
WrappedValues ==
    OtherShapes
    \cup {List(q) : q \in SeqsUpTo(CoreEntries, 1)}
    \cup {List(<<sec>>) : sec \in PairSections}

RECURSIVE Wrappers(_)
Wrappers(depth) ==
    IF depth = 0 THEN WrappedValues
    ELSE LET inner == Wrappers(depth - 1)
         IN  inner \cup {Obj([sections |-> x]) : x \in inner}
                   \cup {Obj([sections |-> x, title |-> Str("t")]) : x \in inner}

Inputs == FlatLists \cup SectionLists \cup Wrappers(MaxDepth)

TemplateFiles ==
    { Missing, Text(<<>>), Text(<<Piece("X")>>), Text(<<Piece(PLACEHOLDER)>>),
      Text(<<Piece("X"), Piece(PLACEHOLDER), Piece(PLACEHOLDER), Piece("Y")>>) }

FreshFs == [dirs |-> FALSE, out |-> None]

-----------------------------------------------------------------------------
(* A run of main *)

Init ==
    /\ raw \in Inputs \cup {Missing}
    /\ pc = "load_json"
    /\ data = None
    /\ normalized = None
    /\ template = None
    /\ fs = FreshFs
    /\ err = None
    /\ result = None
    /\ second = None

\* raw = load_json(args.json_path)
LoadJson ==
    /\ pc = "load_json"
    /\ IF raw = Missing
       THEN /\ err' = [type |-> "OSError", msg |-> <<Lit("json_path")>>]
            /\ pc' = "error"
            /\ UNCHANGED data
       ELSE /\ data' = raw
            /\ pc' = "normalize_data"
            /\ UNCHANGED err
    /\ UNCHANGED <<raw, normalized, template, fs, result, second>>

\* normalized = normalize_data(raw, args.default_section, args.default_lang)
NormalizeData ==
    /\ pc = "normalize_data"
    /\ LET r == normalize_data(data, DefaultSection, DefaultLang) IN
         IF r.ok
         THEN /\ normalized' = r.val
              /\ pc' = "read_template"
              /\ UNCHANGED err
         ELSE /\ err' = r.err
              /\ pc' = "error"
              /\ UNCHANGED normalized
    /\ UNCHANGED <<raw, data, template, fs, result, second>>

\* template = template_path.read_text(encoding="utf-8")
ReadTemplate ==
    /\ pc = "read_template"
    /\ \E file \in TemplateFiles :
         IF file = Missing
         THEN /\ err' = [type |-> "OSError", msg |-> <<Lit("template_path")>>]
              /\ pc' = "error"
              /\ UNCHANGED template
         ELSE /\ template' = file
              /\ pc' = "check_placeholder"
              /\ UNCHANGED err
    /\ UNCHANGED <<raw, data, normalized, fs, result, second>>

\* if PLACEHOLDER not in template: raise ValueError(...)
CheckPlaceholder ==
    /\ pc = "check_placeholder"
    /\ IF ~has_placeholder(template)
       THEN /\ err' = [type |-> "ValueError",
                       msg |-> <<Lit("Placeholder '"), Lit(PLACEHOLDER),
                                 Lit("' not found in template "), Lit("template_path")>>]
            /\ pc' = "error"
       ELSE /\ pc' = "mkdir"
            /\ UNCHANGED err
    /\ UNCHANGED <<raw, data, normalized, template, fs, result, second>>

\* output_path.parent.mkdir(parents=True, exist_ok=True)
MakeDirs ==
    /\ pc = "mkdir"
    /\ fs' = [fs EXCEPT !.dirs = TRUE]
    /\ pc' = "write_text"
    /\ UNCHANGED <<raw, data, normalized, template, err, result, second>>

\* output_path.write_text(rendered, encoding="utf-8")
WriteOutput ==
    /\ pc = "write_text"
    /\ fs' = [fs EXCEPT !.out = replace_all(template, dumps(normalized))]
    /\ pc' = "done"
    /\ UNCHANGED <<raw, data, normalized, template, err, result, second>>

Next ==
    \/ LoadJson
    \/ NormalizeData
    \/ ReadTemplate
    \/ CheckPlaceholder
    \/ MakeDirs
    \/ WriteOutput

Spec == Init /\ [][Next]_vars

-----------------------------------------------------------------------------
(* Calls of the two normalizers on their own *)

InitCalls ==
    /\ raw \in Inputs
    /\ pc = "idle"
    /\ data = None
    /\ normalized = None
    /\ template = None
    /\ fs = FreshFs
    /\ err = None
    /\ result = None
    /\ second = None

\* normalize_sentences(raw, default_section, default_lang) on a list
CallNormalizeSentences ==
    /\ pc = "idle"
    /\ IsList(raw)
    /\ result' = normalize_sentences(raw.l, DefaultSection, DefaultLang)
    /\ pc' = "normalize_sentences"
    /\ UNCHANGED <<raw, data, normalized, template, fs, err, second>>

\* normalize_data(raw, default_section, default_lang) on any value
CallNormalizeData ==
    /\ pc = "idle"
    /\ result' = normalize_data(raw, DefaultSection, DefaultLang)
    /\ pc' = "normalize_data"
    /\ UNCHANGED <<raw, data, normalized, template, fs, err, second>>

\* normalize_data on the Document a call of normalize_data returned
CallNormalizeDataAgain ==
    /\ pc = "normalize_data"
    /\ result.ok
    /\ second' = normalize_data(result.val, DefaultSection, DefaultLang)
    /\ pc' = "normalize_data_again"
    /\ UNCHANGED <<raw, data, normalized, template, fs, err, result>>

NextCalls ==
    \/ CallNormalizeSentences
    \/ CallNormalizeData
    \/ CallNormalizeDataAgain

SpecCalls == InitCalls /\ [][NextCalls]_vars

-----------------------------------------------------------------------------
(* Vocabulary of the properties, stated on the inputs rather than on the  *)
(* normalizers.                                                           *)

\* The entries of the flat list a call of normalize_sentences was given
Items == raw.l

\* The four kinds of invalid flat entry
NotMapping(e) == e.t # "obj"
MissingOriginal(e) == e.t = "obj" /\ "original" \notin DOMAIN e.o
BadTranslations(e) ==
    /\ e.t = "obj" /\ "original" \in DOMAIN e.o
    /\ "translations" \in DOMAIN e.o
    /\ e.o["translations"].t \notin {"obj", "null"}
BadTranslation(e) ==
    /\ e.t = "obj" /\ "original" \in DOMAIN e.o
    /\ ~BadTranslations(e)
    /\ "translation" \in DOMAIN e.o
    /\ e.o["translation"].t \notin {"str", "obj", "null"}
Invalid(e) ==
    NotMapping(e) \/ MissingOriginal(e) \/ BadTranslations(e) \/ BadTranslation(e)

\* The effective section title of a valid entry
EffectiveTitle(e) ==
    IF "section" \in DOMAIN e.o /\ Truthy(e.o["section"])
    THEN e.o["section"] ELSE Str(DefaultSection)

\* The entries before and including i that share the title of entry i
RankOf(items, i) ==
    Cardinality({j \in 1..i : EffectiveTitle(items[j]) = EffectiveTitle(items[i])})

\* The sections of a returned Document
Sections(doc) == doc.l
TitleOf(section) == section.o["sectionTitle"]
SentencesOf(section) == section.o["sentences"].l

\* Positions of the output sections that carry the title
SectionsTitled(doc, title) ==
    {k \in 1..Len(Sections(doc)) : TitleOf(Sections(doc)[k]) = title}

\* normalize_sentences has returned a Document for the flat list raw
SentencesReturned == pc = "normalize_sentences" /\ result.ok

\* The reference of the merged translations of entry e, as a relation
\* between the entry and an output mapping out
TranslationsAsSpecified(e, out) ==
    LET base == IF "translations" \in DOMAIN e.o /\ e.o["translations"].t = "obj"
                THEN e.o["translations"].o ELSE EmptyDict
        tr == IF "translation" \in DOMAIN e.o THEN e.o["translation"] ELSE Null
        added == CASE tr.t = "str" -> {DefaultLang}
                   [] tr.t = "obj" -> DOMAIN tr.o
                   [] OTHER -> {}
    IN  /\ out.t = "obj"
        /\ DOMAIN out.o = DOMAIN base \cup added
        /\ \A k \in DOMAIN out.o :
             out.o[k] = CASE tr.t = "obj" /\ k \in DOMAIN tr.o -> tr.o[k]
                          [] tr.t = "str" /\ k \notin DOMAIN base -> tr
                          [] OTHER -> base[k]

\* C1: for every entry of a flat list that normalize_sentences accepts, the
\* sentence it yields (in the section of its effective title, at its rank
\* among the entries of that title) has the translations of the reference:
\* the pairs of `translations`, a string `translation` added under
\* default_lang only when that key is absent, a mapping `translation`
\* merged with overwriting, an absent or null `translation` changing nothing.
C1_TranslationsMerged ==
    SentencesReturned =>
        \A i \in 1..Len(Items) :
            \E k \in SectionsTitled(result.val, EffectiveTitle(Items[i])) :
                LET sentences == SentencesOf(Sections(result.val)[k]) IN
                /\ RankOf(Items, i) <= Len(sentences)
                /\ TranslationsAsSpecified(Items[i],
                       sentences[RankOf(Items, i)].o["translations"])

\* An accepted entry whose string `translation` meets a `translations`
\* mapping that already has the default language
C1_Witness ==
    /\ SentencesReturned
    /\ \E i \in 1..Len(Items) :
         /\ "translation" \in DOMAIN Items[i].o
         /\ Items[i].o["translation"].t = "str"
         /\ "translations" \in DOMAIN Items[i].o
         /\ Items[i].o["translations"].t = "obj"
         /\ DefaultLang \in DOMAIN Items[i].o["translations"].o

\* The entries of items that carry the title, in list order
EntriesTitled(items, title) ==
    LET Carries(e) == EffectiveTitle(e) = title IN SelectSeq(items, Carries)

\* First position of an entry that carries the title
FirstWith(items, title) ==
    CHOOSE i \in 1..Len(items) :
        /\ EffectiveTitle(items[i]) = title
        /\ \A j \in 1..(i - 1) : EffectiveTitle(items[j]) # title

\* Sum of the lengths of the sentence lists of the first n sections
RECURSIVE SentenceCount(_, _)
SentenceCount(doc, n) ==
    IF n = 0 THEN 0
    ELSE Len(SentencesOf(Sections(doc)[n])) + SentenceCount(doc, n - 1)

\* C2: a flat list that normalize_sentences accepts yields exactly one
\* section per distinct effective title, in the order the titles are first
\* met; each section holds the entries of its title in list order (same
\* `original`, same truthiness of `root`), and the sentences number the
\* entries.
C2_GroupedInEncounterOrder ==
    SentencesReturned =>
        LET doc == result.val
            n == Len(Sections(doc))
        IN  /\ {TitleOf(Sections(doc)[k]) : k \in 1..n}
                 = {EffectiveTitle(Items[i]) : i \in 1..Len(Items)}
            /\ \A k, m \in 1..n : k # m =>
                 TitleOf(Sections(doc)[k]) # TitleOf(Sections(doc)[m])
            /\ \A k, m \in 1..n : k < m =>
                 FirstWith(Items, TitleOf(Sections(doc)[k]))
                   < FirstWith(Items, TitleOf(Sections(doc)[m]))
            /\ \A k \in 1..n :
                 LET entries == EntriesTitled(Items, TitleOf(Sections(doc)[k]))
                     sentences == SentencesOf(Sections(doc)[k])
                 IN  /\ Len(sentences) = Len(entries)
                     /\ \A j \in 1..Len(entries) :
                          /\ sentences[j].o["original"] = entries[j].o["original"]
                          /\ sentences[j].o["root"] =
                               Bool("root" \in DOMAIN entries[j].o
                                    /\ Truthy(entries[j].o["root"]))
            /\ SentenceCount(doc, n) = Len(Items)

\* Two titles, the first of which comes back after the second was met
C2_Witness ==
    /\ SentencesReturned
    /\ Len(Items) = 3
    /\ EffectiveTitle(Items[1]) = EffectiveTitle(Items[3])
    /\ EffectiveTitle(Items[1]) # EffectiveTitle(Items[2])
    /\ Len(Sections(result.val)) = 2

-----------------------------------------------------------------------------
(* normalize_data, called on any value *)

\* The value left after every {"sections": ...} wrapper is taken off
RECURSIVE Unwrapped(_)
Unwrapped(v) ==
    IF v.t = "obj" /\ "sections" \in DOMAIN v.o THEN Unwrapped(v.o["sections"]) ELSE v

\* A mapping that has both keys of a section
SectionShaped(e) ==
    e.t = "obj" /\ "sectionTitle" \in DOMAIN e.o /\ "sentences" \in DOMAIN e.o

\* The input is, under its wrappers, a list in the pre-sectioned shape
PreSectioned(v) ==
    /\ Unwrapped(v).t = "list"
    /\ \A i \in 1..Len(Unwrapped(v).l) : SectionShaped(Unwrapped(v).l[i])

\* The input is, under its wrappers, a list that is given to normalize_sentences
FlatInput(v) == Unwrapped(v).t = "list" /\ ~PreSectioned(v)

\* normalize_data has returned a Document for raw
DataReturned == pc = "normalize_data" /\ result.ok

\* C3: in every Document normalize_data returns, whatever the accepted
\* shape, every sentence's `translations` is a mapping, never null.
C3_TranslationsAlwaysMapping ==
    DataReturned =>
        \A k \in 1..Len(Sections(result.val)) :
            \A j \in 1..Len(SentencesOf(Sections(result.val)[k])) :
                SentencesOf(Sections(result.val)[k])[j].o["translations"].t = "obj"

\* C4: in the pre-sectioned shape the output title is the input
\* `sectionTitle`, or default_section when that is absent or falsy.
C4_FalsyTitleDefaulted ==
    (DataReturned /\ PreSectioned(raw)) =>
        /\ Len(Sections(result.val)) = Len(Unwrapped(raw).l)
        /\ \A k \in 1..Len(Sections(result.val)) :
             TitleOf(Sections(result.val)[k]) =
                IF Truthy(Unwrapped(raw).l[k].o["sectionTitle"])
                THEN Unwrapped(raw).l[k].o["sectionTitle"]
                ELSE Str(DefaultSection)

-----------------------------------------------------------------------------
(* Errors *)

\* Some call has raised
Raised == pc \in {"normalize_sentences", "normalize_data"} /\ ~result.ok

HasIndex(e) == \E i \in 1..Len(e.msg) : e.msg[i].p = "index"
HasValue(e) == \E i \in 1..Len(e.msg) : e.msg[i].p = "repr"
CarriesIndex(e, n) == \E i \in 1..Len(e.msg) : e.msg[i] = Idx(n)
CarriesValue(e, v) == \E i \in 1..Len(e.msg) : e.msg[i] = Repr(v)

IsShapeError(e) ==
    e.type = "ValueError" /\ e.msg[1].p = "lit" /\ e.msg[1].text =
        "Unsupported JSON shape. Expected a list of sentences or sections."

\* A validation failure of an entry or a sentence
IsEntryError(e) == e.type = "ValueError" /\ ~IsShapeError(e)

\* The list whose entries the call went through
ListGiven == IF pc = "normalize_sentences" THEN raw.l ELSE Unwrapped(raw).l

\* The call went through the list as a flat list
WentFlat == pc = "normalize_sentences" \/ (pc = "normalize_data" /\ FlatInput(raw))

\* Position of the first invalid entry of a list that has one
FirstInvalid(items) ==
    CHOOSE i \in 1..Len(items) :
        Invalid(items[i]) /\ \A j \in 1..(i - 1) : ~Invalid(items[j])

\* C5 as stated: every validation failure of an entry or a sentence carries
\* both a 1-based index and the offending value.
C5_IndexAndValueAlways ==
    (Raised /\ IsEntryError(result.err)) =>
        HasIndex(result.err) /\ HasValue(result.err)

\* C5 as amended: a flat entry that is not a mapping or lacks `original`
\* is reported with its 1-based index and its value; a bad `translations`
\* or `translation` is reported with the 1-based index of its entry and no
\* value; a non-mapping sentence of a pre-sectioned section is reported
\* with its value and no index.
C5_IndexOrValue ==
    (Raised /\ IsEntryError(result.err)) =>
        IF WentFlat
        THEN LET i == FirstInvalid(ListGiven) IN
             /\ \E j \in 1..Len(ListGiven) : Invalid(ListGiven[j])
             /\ CarriesIndex(result.err, i)
             /\ IF NotMapping(ListGiven[i]) \/ MissingOriginal(ListGiven[i])
                THEN CarriesValue(result.err, ListGiven[i])
                ELSE ~HasValue(result.err)
        ELSE /\ ~HasIndex(result.err)
             /\ \E i \in 1..Len(result.err.msg) :
                  /\ result.err.msg[i].p = "repr"
                  /\ result.err.msg[i].value.t # "obj"

\* An entry without `original` at the third place of a flat list is reported
C5_Witness ==
    /\ Raised /\ WentFlat /\ IsEntryError(result.err)
    /\ Len(ListGiven) = 3
    /\ FirstInvalid(ListGiven) = 3
    /\ MissingOriginal(ListGiven[3])

\* C6: normalize_sentences fails exactly when some entry is invalid, the
\* error then reports the 1-based index of the first invalid entry, and no
\* Document is returned.
C6_FailsIffInvalidEntry ==
    pc = "normalize_sentences" =>
        /\ ~result.ok <=> \E i \in 1..Len(Items) : Invalid(Items[i])
        /\ ~result.ok => /\ CarriesIndex(result.err, FirstInvalid(Items))
                         /\ "val" \notin DOMAIN result

-----------------------------------------------------------------------------
(* Shapes *)

\* C7: normalize_data raises the input-shape error exactly when the input,
\* its {"sections": ...} wrappers taken off, is not a list; and on a mapping
\* with `sections` it returns what it returns on the value of `sections`,
\* whatever the other keys.
C7_ShapeErrorIffNotList ==
    pc = "normalize_data" =>
        /\ (~result.ok /\ IsShapeError(result.err)) <=> Unwrapped(raw).t # "list"
        /\ (raw.t = "obj" /\ "sections" \in DOMAIN raw.o) =>
             result = normalize_data(raw.o["sections"], DefaultSection, DefaultLang)

\* Two wrappers, the outer with another key, around a list that is normalized
C7_Witness ==
    /\ DataReturned
    /\ raw.t = "obj" /\ DOMAIN raw.o = {"sections", "title"}
    /\ raw.o["sections"].t = "obj"
    /\ Unwrapped(raw).t = "list"
    /\ Len(Unwrapped(raw).l) > 0

\* Every entry has a `section` and no two entries have the same
UniqueSections(items) ==
    /\ \A i \in 1..Len(items) : items[i].t = "obj" /\ "section" \in DOMAIN items[i].o
    /\ \A i, j \in 1..Len(items) : i # j => items[i].o["section"] # items[j].o["section"]

\* No entry has a `section`
NoSections(items) ==
    \A i \in 1..Len(items) : items[i].t = "obj" /\ "section" \notin DOMAIN items[i].o

\* C8 as stated: a flat list whose entries have pairwise different `section`
\* values yields as many sections as there are values, and one whose entries
\* have no `section` yields the one section of the default title.
C8_SectionPerValue ==
    (DataReturned /\ FlatInput(raw)) =>
        LET items == Unwrapped(raw).l IN
        /\ UniqueSections(items) =>
             Len(Sections(result.val))
               = Cardinality({items[i].o["section"] : i \in 1..Len(items)})
        /\ NoSections(items) =>
             /\ Len(Sections(result.val)) = 1
             /\ TitleOf(Sections(result.val)[1]) = Str(DefaultSection)

\* A non-empty string
NonEmptyString(v) == v.t = "str" /\ v.s # ""

\* C8 as amended: the count holds when the pairwise different `section`
\* values are non-empty strings.
C8_SectionPerNonEmptyString ==
    (DataReturned /\ FlatInput(raw)) =>
        LET items == Unwrapped(raw).l IN
        /\ (UniqueSections(items)
              /\ \A i \in 1..Len(items) : NonEmptyString(items[i].o["section"])) =>
             Len(Sections(result.val))
               = Cardinality({items[i].o["section"] : i \in 1..Len(items)})
        /\ NoSections(items) =>
             /\ Len(Sections(result.val)) = 1
             /\ TitleOf(Sections(result.val)[1]) = Str(DefaultSection)

\* Three entries of three non-empty sections
C8_Witness ==
    /\ DataReturned /\ FlatInput(raw)
    /\ Len(Unwrapped(raw).l) = 3
    /\ UniqueSections(Unwrapped(raw).l)
    /\ \A i \in 1..3 : NonEmptyString(Unwrapped(raw).l[i].o["section"])
    /\ Len(Sections(result.val)) = 3

\* C9: the Document normalize_data returns is in the pre-sectioned shape,
\* and normalize_data returns it unchanged when given it again.
C9_Idempotent ==
    pc = "normalize_data_again" =>
        /\ \A k \in 1..Len(Sections(result.val)) : SectionShaped(Sections(result.val)[k])
        /\ second.ok
        /\ second.val = result.val

\* A flat list of two sections' worth of entries went through both passes
C9_Witness ==
    /\ pc = "normalize_data_again"
    /\ FlatInput(raw)
    /\ Len(Sections(result.val)) = 2
    /\ Len(SentencesOf(Sections(result.val)[1])) = 2

-----------------------------------------------------------------------------
(* The run of main *)

\* The template text holds the placeholder
ContainsPlaceholder(tpl) ==
    \E i \in 1..Len(tpl.pieces) : tpl.pieces[i].text = PLACEHOLDER

IsTemplateError(e) ==
    e.type = "ValueError" /\ e.msg[1] = Lit("Placeholder '")

\* A validation error of the JSON: raised by normalize_data
IsJsonValidationError(e) == e.type = "ValueError" /\ ~IsTemplateError(e)

\* C10: the file system changes only once normalize_data has returned a
\* Document and the template read contains the placeholder; a run that
\* ends in a validation error or a template error leaves the file system
\* as it was; a validation error of the JSON comes before the template is
\* read.
C10_WriteOnlyAfterChecks ==
    [][ /\ fs' # fs =>
             /\ normalized # None
             /\ template # None
             /\ ContainsPlaceholder(template)
        /\ (pc' = "error" /\ err'.type = "ValueError") => fs' = FreshFs
        /\ (pc' = "error" /\ IsJsonValidationError(err')) => template' = None
      ]_vars

\* The output was written from a template with two placeholders
C10_Witness ==
    /\ pc = "done"
    /\ fs.dirs
    /\ fs.out # None
    /\ Len(template.pieces) = 4
    /\ Len(normalized.l) > 0

====
